---------------------------- MODULE Spec2Model ----------------------------
(***************************************************************************)
(* RustProcSentry: the process handler (src/src/process_handler.rs), the   *)
(* interactive display (src/src/ui.rs) and the command-line front end      *)
(* (src/src/cli.rs).                                                       *)
(*                                                                         *)
(* Conventions of the model                                                *)
(*  - an f32 is a record [k, v]: k = "fin" with the value v, k = "nan", or *)
(*    k = "inf" (positive infinity).  Finite values are integers: the      *)
(*    inputs are chosen so that every quotient the code forms is exact,    *)
(*    and f32 rounding is not modelled.                                    *)
(*  - a String is the sequence of its bytes (ASCII code points).           *)
(*  - a history sample is a record [cycle, value]: value is the f32 the    *)
(*    code pushes, cycle is a ghost tag naming the refresh that pushed it. *)
(***************************************************************************)
EXTENDS Integers, Sequences, FiniteSets, TLC

(***************************************************************************)
(* Bounds of the model.                                                    *)
(***************************************************************************)
MaxRefresh == 120

MaxTasks == 3

MaxInputs == 1

MaxProcs == 3

MaxSeries == 3

(***************************************************************************)
(* Program constants.                                                      *)
(***************************************************************************)
HistoryCap == 100

SPIKE_THRESHOLD == 20

VARIABLES
    \* Arc<Mutex<ProcessHandler>>
    handler,                \* the ProcessHandler: system readings, two histories
    mutex,                  \* the task holding the lock, 0 when it is free
    \* TaskManager
    processes,
    filtered_processes,
    cpu_usage_history,
    memory_usage_history,
    search_query,
    sort_field,
    sort_order,
    show_graphs,
    \* the runtime of the interactive display
    tasks,                  \* the futures of Command::perform, in spawn order
    channel,                \* messages of finished futures, not yet handled
    crashed,                \* update has panicked
    applied,                \* ghost: apply_filter_and_sort has run
    inputs,                 \* ghost: searches, sorts and toggles handled so far
    \* SpecHistory
    env,                    \* the workload of the host and its clock
    pushed,                 \* ghost log of every value refresh has pushed
    \* SpecCli
    cli,                    \* one run of run_cli
    \* SpecChart
    chart                   \* one call of a chart's draw

tmVars == <<processes, filtered_processes, cpu_usage_history,
            memory_usage_history, search_query, sort_field, sort_order,
            show_graphs, crashed, applied>>

guiVars == <<mutex, tasks, channel, inputs, tmVars>>

histVars == <<env, pushed>>

nonGuiVars == <<env, pushed, cli, chart>>

vars == <<handler, guiVars, env, pushed, cli, chart>>

\* The variables of the interactive display, where no display runs.
GuiIdle ==
    /\ mutex = 0
    /\ processes = << >>
    /\ filtered_processes = << >>
    /\ cpu_usage_history = << >>
    /\ memory_usage_history = << >>
    /\ search_query = << >>
    /\ sort_field = "PID"
    /\ sort_order = "Ascending"
    /\ show_graphs = TRUE
    /\ tasks = << >>
    /\ channel = << >>
    /\ crashed = FALSE
    /\ applied = FALSE
    /\ inputs = 0

\* The variables of SpecCli, where it does not run.
CliIdle ==
    cli = [pc |-> "idle"]

\* The variables of SpecChart, where it does not run.
ChartIdle ==
    chart = [pc |-> "idle"]

\* The variables of SpecHistory, where it does not run.
HistIdle ==
    /\ env = [workload |-> "none", tick |-> 0]
    /\ pushed = [cpu |-> << >>, mem |-> << >>]

(***************************************************************************)
(* f32                                                                     *)
(***************************************************************************)
Fin(n) == [k |-> "fin", v |-> n]

NaN == [k |-> "nan", v |-> 0]

PosInf == [k |-> "inf", v |-> 1]

IsNaN(a) == a.k = "nan"

IsFinite(a) == a.k = "fin"

\* used_memory as f32 / total_memory as f32 * 100.0 : IEEE division, x/0 is
\* infinite for x > 0 and NaN for x = 0; it never faults.
MemoryUsagePercent(used_memory, total_memory) ==
    IF total_memory = 0
    THEN (IF used_memory = 0 THEN NaN ELSE PosInf)
    ELSE Fin((used_memory * 100) \div total_memory)

(***************************************************************************)
(* ProcessHandler                                                          *)
(***************************************************************************)
Sample(c, x) == [cycle |-> c, value |-> x]

Values(h) == [i \in 1..Len(h) |-> h[i].value]

Cycles(h) == [i \in 1..Len(h) |-> h[i].cycle]

Reading(cpu, used, total) ==
    [cpu_usage |-> cpu, used_memory |-> used, total_memory |-> total]

\* ProcessHandler::new: both histories start empty.
NewHandler ==
    [system |-> Reading(0, 0, 0),
     cpu_usage_history |-> << >>,
     memory_usage_history |-> << >>]

\* A push that drops nothing.
PushNoEvict(h, s) == Append(h, s)

\* A push that drops the newest element already held instead of the oldest.
PushEvictNewest(h, s) ==
    LET pushedh == Append(h, s)
    IN  IF Len(pushedh) > HistoryCap
        THEN SubSeq(pushedh, 1, Len(pushedh) - 2) \o <<s>>
        ELSE pushedh

\* history.push(x); if history.len() > 100 { history.remove(0); }
Push(h, s) ==
    LET pushedh == Append(h, s)
    IN  IF Len(pushedh) > HistoryCap THEN Tail(pushedh) ELSE pushedh

\* refresh, first half: system.refresh_all(), then the CPU push.
RefreshCpu(ph, reading, c) ==
    [ph EXCEPT !.system = reading,
               !.cpu_usage_history =
                   Push(ph.cpu_usage_history, Sample(c, Fin(reading.cpu_usage)))]

\* refresh, second half: the memory percentage and its push.
RefreshMemory(ph, c) ==
    [ph EXCEPT !.memory_usage_history =
                   Push(ph.memory_usage_history,
                        Sample(c, MemoryUsagePercent(ph.system.used_memory,
                                                     ph.system.total_memory)))]

\* ProcessHandler::refresh as one call.
Refresh(ph, reading, c) == RefreshMemory(RefreshCpu(ph, reading, c), c)

(***************************************************************************)
(* Strings                                                                 *)
(***************************************************************************)
\* u8::to_ascii_lowercase, the effect of str::to_lowercase on ASCII text.
ToLowerByte(b) == IF b >= 65 /\ b <= 90 THEN b + 32 ELSE b

\* A lowering that leaves the text as it is.
ToLowercaseIdentity(s) == s

\* str::to_lowercase
ToLowercase(s) == [i \in 1..Len(s) |-> ToLowerByte(s[i])]

RECURSIVE Digits(_)
\* The decimal digits of n >= 0, most significant first.
Digits(n) ==
    IF n < 10 THEN <<48 + n>> ELSE Append(Digits(n \div 10), 48 + (n % 10))

\* i32::to_string
PidToString(pid) == IF pid < 0 THEN <<45>> \o Digits(0 - pid) ELSE Digits(pid)

\* str::contains(&str): the needle occurs at some offset of the haystack.
Contains(hay, needle) ==
    \E i \in 1..(Len(hay) - Len(needle) + 1) :
        SubSeq(hay, i, i + Len(needle) - 1) = needle

RECURSIVE StrCmpFrom(_, _, _)
\* str::cmp: lexicographic on the bytes, a proper prefix is Less.
StrCmpFrom(a, b, i) ==
    IF i > Len(a) /\ i > Len(b) THEN "Equal"
    ELSE IF i > Len(a) THEN "Less"
    ELSE IF i > Len(b) THEN "Greater"
    ELSE IF a[i] < b[i] THEN "Less"
    ELSE IF a[i] > b[i] THEN "Greater"
    ELSE StrCmpFrom(a, b, i + 1)

StrCmp(a, b) == StrCmpFrom(a, b, 1)

\* Ord::cmp on integers (i32 pid, u64 memory_usage).
IntCmp(a, b) == IF a < b THEN "Less" ELSE IF a > b THEN "Greater" ELSE "Equal"

\* f32::partial_cmp: None when either side is NaN.
PartialCmp(a, b) ==
    IF IsNaN(a) \/ IsNaN(b) THEN "None"
    ELSE IF a.k = "inf" /\ b.k = "inf" THEN "Equal"
    ELSE IF a.k = "inf" THEN "Greater"
    ELSE IF b.k = "inf" THEN "Less"
    ELSE IntCmp(a.v, b.v)

(***************************************************************************)
(* ProcessInfo and the filter and sort of the displayed list               *)
(***************************************************************************)
ProcessInfo(pid, cpu, mem, cmd) ==
    [pid |-> pid, user |-> <<48>>, cpu_usage |-> cpu, memory_usage |-> mem,
     command |-> cmd]

SortFields == {"PID", "CPU", "Memory", "Command"}

SortOrders == {"Ascending", "Descending"}

\* A match that needs both the pid and the command to hold the query.
MatchesBoth(p, query) ==
    Contains(PidToString(p.pid), query) /\ Contains(ToLowercase(p.command), query)

\* A match that compares the command as stored, without lowering it.
MatchesCaseSensitive(p, query) ==
    Contains(PidToString(p.pid), query) \/ Contains(p.command, query)

\* The closure of the filter: the lowered query is in the pid or the command.
Matches(p, query) ==
    Contains(PidToString(p.pid), query) \/ Contains(ToLowercase(p.command), query)

RECURSIVE FilterIter(_, _, _)
\* iter().filter(..).collect(): the matching elements, in iteration order.
FilterIter(list, query, i) ==
    IF i > Len(list) THEN << >>
    ELSE IF Matches(list[i], query)
         THEN <<list[i]>> \o FilterIter(list, query, i + 1)
         ELSE FilterIter(list, query, i + 1)

\* apply_filter_and_sort, the filter: an empty query clones the snapshot.
FilterProcesses(procs, query) ==
    IF query = << >> THEN procs ELSE FilterIter(procs, ToLowercase(query), 1)

\* The ascending comparison of one field.
FieldCmp(field, a, b) ==
    CASE field = "PID"     -> IntCmp(a.pid, b.pid)
      [] field = "CPU"     -> PartialCmp(a.cpu_usage, b.cpu_usage)
      [] field = "Memory"  -> IntCmp(a.memory_usage, b.memory_usage)
      [] field = "Command" -> StrCmp(a.command, b.command)

\* A comparator that ignores the order asked for.
CompareAscendingOnly(field, order, a, b) == FieldCmp(field, a, b)

\* A comparator that orders every field by pid.
CompareByPidOnly(field, order, a, b) ==
    IF order = "Ascending" THEN IntCmp(a.pid, b.pid) ELSE IntCmp(b.pid, a.pid)

\* The comparator of each arm of the match: descending swaps the operands.
Compare(field, order, a, b) ==
    IF order = "Ascending" THEN FieldCmp(field, a, b) ELSE FieldCmp(field, b, a)

SortOk(list) == [panicked |-> FALSE, list |-> list]

SortPanic(list) == [panicked |-> TRUE, list |-> list]

RECURSIVE InsertTailUnstable(_, _, _, _, _)
\* An insertion that also moves past equal elements.
InsertTailUnstable(s, x, j, field, order) ==
    IF j = 0 THEN SortOk(<<x>> \o s)
    ELSE LET c == Compare(field, order, x, s[j])
         IN  IF c = "None" THEN SortPanic(s \o <<x>>)
             ELSE IF c \in {"Less", "Equal"}
                  THEN InsertTailUnstable(s, x, j - 1, field, order)
                  ELSE SortOk(SubSeq(s, 1, j) \o <<x>> \o SubSeq(s, j + 1, Len(s)))

RECURSIVE InsertTail(_, _, _, _, _)
\* One insertion of the stable sort: x moves left past s[j] while x is Less
\* than s[j]; a comparison that yields None is the unwrap that panics.
InsertTail(s, x, j, field, order) ==
    IF j = 0 THEN SortOk(<<x>> \o s)
    ELSE LET c == Compare(field, order, x, s[j])
         IN  IF c = "None" THEN SortPanic(s \o <<x>>)
             ELSE IF c = "Less" THEN InsertTail(s, x, j - 1, field, order)
             ELSE SortOk(SubSeq(s, 1, j) \o <<x>> \o SubSeq(s, j + 1, Len(s)))

RECURSIVE SortFrom(_, _, _, _)
\* slice::sort_by on a short slice: insert list[i] into the sorted prefix
\* list[1..i-1], for i = 2..len.
SortFrom(list, i, field, order) ==
    IF i > Len(list) THEN SortOk(list)
    ELSE LET r == InsertTail(SubSeq(list, 1, i - 1), list[i], i - 1, field, order)
         IN  IF r.panicked
             THEN SortPanic(r.list \o SubSeq(list, i + 1, Len(list)))
             ELSE SortFrom(r.list \o SubSeq(list, i + 1, Len(list)), i + 1,
                           field, order)

\* sort_by / sort_by_key: stable, no comparison below two elements.
SortProcesses(list, field, order) ==
    IF Len(list) < 2 THEN SortOk(list) ELSE SortFrom(list, 2, field, order)

\* TaskManager::apply_filter_and_sort
ApplyFilterAndSort(procs, query, field, order) ==
    SortProcesses(FilterProcesses(procs, query), field, order)

(***************************************************************************)
(* The inputs of the model: what the host can report.                      *)
(***************************************************************************)
StrSshd == <<115, 115, 104, 100>>       \* "sshd"

StrSSH == <<83, 83, 72>>                \* "SSH"

StrCron == <<99, 114, 111, 110>>        \* "cron"

StrBash == <<98, 97, 115, 104>>         \* "bash"

ProcA == ProcessInfo(3, Fin(5), 200, StrSshd)

ProcB == ProcessInfo(1, Fin(5), 100, StrSSH)

ProcC == ProcessInfo(2, Fin(50), 50, StrCron)

ProcD == ProcessInfo(10, NaN, 100, StrSshd)

ProcE == ProcessInfo(20, PosInf, 50, StrBash)

ProcF == ProcessInfo(12, Fin(50), 200, StrCron)

ProcessPool == {ProcA, ProcB, ProcC, ProcD, ProcE, ProcF}

\* The process table is keyed by pid: a snapshot holds each pid once, in an
\* order the host chooses.
SnapshotsUpTo(n) ==
    {snap \in UNION {[1..k -> ProcessPool] : k \in 0..n} :
        \A i, j \in 1..Len(snap) : i # j => snap[i].pid # snap[j].pid}

\* The search texts: "", "sS", "1", "on".
Queries == {<< >>, <<115, 83>>, <<49>>, <<111, 110>>}

Workloads == {"ramp", "saw", "nomem"}

\* What the host reports at its t-th reading.
HostReading(w, t) ==
    CASE w = "ramp"  -> Reading(t, t, 100)
      [] w = "saw"   -> Reading(t % 3, t % 2, 4)
      [] w = "nomem" -> Reading(50, 0, 0)

\* The workloads the interactive display is run under.
GuiWorkloads == {"saw"}

\* The interactive display with its tasks in flight sees fewer of them.
GuiSnapshots == {<<ProcA, ProcB, ProcC>>, <<ProcC, ProcD>>}

GuiQueries == {<< >>, <<115, 83>>}

\* What refresh_processes returns when the host's process table cannot be
\* read at all: it has no error to return, sysinfo keeps no process, and the
\* map collects to an empty Vec (a table that can be read holds at least the
\* program itself).
FailedEnumeration == << >>


(***************************************************************************)
(* Message and the futures of Command::perform                             *)
(***************************************************************************)
NoMessage == [type |-> "None"]

RefreshMessage == [type |-> "Refresh"]

RefreshComplete(procs, cpu, mem) ==
    [type |-> "RefreshComplete", processes |-> procs,
     cpu_usage_history |-> cpu, memory_usage_history |-> mem]

KillComplete(result) == [type |-> "KillComplete", result |-> result]

Task(kind, pc, pid, msg) == [kind |-> kind, pc |-> pc, pid |-> pid, msg |-> msg]

TaskIds == 1..Len(tasks)

\* Command::perform hands the future to the executor.
Spawn(task) ==
    /\ Len(tasks) < MaxTasks
    /\ tasks' = Append(tasks, task)

(***************************************************************************)
(* TaskManager::update, one operator per Message                           *)
(***************************************************************************)
\* self.apply_filter_and_sort(): a panic of the comparator ends update.
StoreFilteredAndSorted(procs, query, field, order) ==
    LET r == ApplyFilterAndSort(procs, query, field, order)
    IN  /\ filtered_processes' = r.list
        /\ crashed' = r.panicked
        /\ applied' = TRUE

\* Message::Refresh
UpdateRefresh ==
    /\ Spawn(Task("refresh", "lock", 0, NoMessage))
    /\ UNCHANGED <<handler, mutex, tmVars>>

\* Message::RefreshComplete
UpdateRefreshComplete(msg) ==
    /\ processes' = msg.processes
    /\ cpu_usage_history' = msg.cpu_usage_history
    /\ memory_usage_history' = msg.memory_usage_history
    /\ StoreFilteredAndSorted(msg.processes, search_query, sort_field, sort_order)
    /\ UNCHANGED <<handler, mutex, tasks, search_query, sort_field, sort_order,
                   show_graphs>>

\* Message::KillProcess
UpdateKillProcess(pid) ==
    /\ Spawn(Task("kill", "lock", pid, NoMessage))
    /\ UNCHANGED <<handler, mutex, tmVars>>

\* Message::KillComplete: either result is printed, then a Refresh is emitted.
UpdateKillComplete(msg) ==
    /\ Spawn(Task("emit", "send", 0, RefreshMessage))
    /\ UNCHANGED <<handler, mutex, tmVars>>

\* A SearchChanged that filters the snapshot itself, in place.
UpdateSearchChangedInPlace(query) ==
    /\ search_query' = query
    /\ processes' = FilterProcesses(processes, query)
    /\ StoreFilteredAndSorted(processes, query, sort_field, sort_order)
    /\ UNCHANGED <<handler, mutex, tasks, cpu_usage_history,
                   memory_usage_history, sort_field, sort_order, show_graphs>>

\* Message::SearchChanged
UpdateSearchChanged(query) ==
    /\ search_query' = query
    /\ StoreFilteredAndSorted(processes, query, sort_field, sort_order)
    /\ UNCHANGED <<handler, mutex, tasks, processes, cpu_usage_history,
                   memory_usage_history, sort_field, sort_order, show_graphs>>

\* A SortBy that sorts ascending whichever field was current.
UpdateSortByNoToggle(field) ==
    /\ sort_field' = field
    /\ sort_order' = "Ascending"
    /\ StoreFilteredAndSorted(processes, search_query, field, "Ascending")
    /\ UNCHANGED <<handler, mutex, tasks, processes, cpu_usage_history,
                   memory_usage_history, search_query, show_graphs>>

\* Message::SortBy
UpdateSortBy(field) ==
    LET order == IF sort_field = field
                 THEN (IF sort_order = "Ascending" THEN "Descending"
                                                   ELSE "Ascending")
                 ELSE "Ascending"
    IN  /\ sort_field' = field
        /\ sort_order' = order
        /\ StoreFilteredAndSorted(processes, search_query, field, order)
        /\ UNCHANGED <<handler, mutex, tasks, processes, cpu_usage_history,
                       memory_usage_history, search_query, show_graphs>>

\* Message::ToggleGraphs
UpdateToggleGraphs ==
    /\ show_graphs' = ~show_graphs
    /\ UNCHANGED <<handler, mutex, tasks, processes, filtered_processes,
                   cpu_usage_history, memory_usage_history, search_query,
                   sort_field, sort_order, crashed, applied>>

(***************************************************************************)
(* The event loop: update runs on one thread, one message at a time.       *)
(***************************************************************************)
\* subscription: every second a Message::Refresh.
Tick ==
    /\ ~crashed
    /\ UpdateRefresh
    /\ UNCHANGED <<channel, inputs, nonGuiVars>>

\* The Refresh button.
PressRefresh ==
    /\ ~crashed
    /\ UpdateRefresh
    /\ UNCHANGED <<channel, inputs, nonGuiVars>>

\* The Kill button of a displayed row.
PressKill(pid) ==
    /\ ~crashed
    /\ \E i \in 1..Len(filtered_processes) : filtered_processes[i].pid = pid
    /\ UpdateKillProcess(pid)
    /\ UNCHANGED <<channel, inputs, nonGuiVars>>

\* The search box.
TypeSearch(query) ==
    /\ ~crashed
    /\ UpdateSearchChanged(query)
    /\ UNCHANGED <<channel, nonGuiVars>>

\* A column header.
PressSortBy(field) ==
    /\ ~crashed
    /\ UpdateSortBy(field)
    /\ UNCHANGED <<channel, nonGuiVars>>

\* The graphs button.
PressToggleGraphs ==
    /\ ~crashed
    /\ UpdateToggleGraphs
    /\ UNCHANGED <<channel, nonGuiVars>>

\* The message a finished future has sent reaches update, oldest first.
Deliver ==
    /\ ~crashed
    /\ channel # << >>
    /\ channel' = Tail(channel)
    /\ LET msg == Head(channel)
       IN  \/ msg.type = "Refresh" /\ UpdateRefresh
           \/ msg.type = "RefreshComplete" /\ UpdateRefreshComplete(msg)
           \/ msg.type = "KillComplete" /\ UpdateKillComplete(msg)
    /\ UNCHANGED <<inputs, nonGuiVars>>

(***************************************************************************)
(* The futures, run by the threads of the executor.  A future takes the    *)
(* lock, works, and drops the guard as it yields its Message; the runtime  *)
(* then sends that Message to the event loop.                              *)
(***************************************************************************)
\* A lock that is granted while another task holds it.
TaskLockNoExclusion(t) ==
    /\ ~crashed
    /\ tasks[t].pc = "lock"
    /\ mutex' = t
    /\ tasks' = [tasks EXCEPT ![t].pc =
                    IF tasks[t].kind = "refresh" THEN "refresh_cpu" ELSE "kill"]
    /\ UNCHANGED <<handler, channel, inputs, tmVars, nonGuiVars>>

\* handler.lock().unwrap()
TaskLock(t) ==
    /\ ~crashed
    /\ tasks[t].pc = "lock"
    /\ mutex = 0
    /\ mutex' = t
    /\ tasks' = [tasks EXCEPT ![t].pc =
                    IF tasks[t].kind = "refresh" THEN "refresh_cpu" ELSE "kill"]
    /\ UNCHANGED <<handler, channel, inputs, tmVars, nonGuiVars>>

\* handler.refresh(), up to the CPU push
TaskRefreshCpu(t) ==
    /\ ~crashed
    /\ tasks[t].pc = "refresh_cpu"
    /\ handler' = RefreshCpu(handler, HostReading(env.workload, t), t)
    /\ tasks' = [tasks EXCEPT ![t].pc = "refresh_memory"]
    /\ UNCHANGED <<mutex, channel, inputs, tmVars, nonGuiVars>>

\* handler.refresh(), the memory push
TaskRefreshMemory(t) ==
    /\ ~crashed
    /\ tasks[t].pc = "refresh_memory"
    /\ handler' = RefreshMemory(handler, t)
    /\ tasks' = [tasks EXCEPT ![t].pc = "snapshot"]
    /\ UNCHANGED <<mutex, channel, inputs, tmVars, nonGuiVars>>

\* handler.refresh_processes(), the two to_vec() copies, the Message; the
\* guard is dropped as the future ends.
TaskSnapshot(t) ==
    /\ ~crashed
    /\ tasks[t].pc = "snapshot"
    /\ \E snap \in GuiSnapshots \cup {FailedEnumeration} :
          tasks' = [tasks EXCEPT
                      ![t].pc = "send",
                      ![t].msg = RefreshComplete(snap, handler.cpu_usage_history,
                                                 handler.memory_usage_history)]
    /\ mutex' = 0
    /\ UNCHANGED <<handler, channel, inputs, tmVars, nonGuiVars>>

\* A kill that also empties the histories of the handler it locked.
TaskKillClearsHistories(t) ==
    /\ ~crashed
    /\ tasks[t].pc = "kill"
    /\ \E result \in {"Ok", "Err"} :
          tasks' = [tasks EXCEPT ![t].pc = "send", ![t].msg = KillComplete(result)]
    /\ handler' = [handler EXCEPT !.cpu_usage_history = << >>,
                                  !.memory_usage_history = << >>]
    /\ mutex' = 0
    /\ UNCHANGED <<channel, inputs, tmVars, nonGuiVars>>

\* handler.kill_process(pid): the host accepts the signal or refuses it.
TaskKill(t) ==
    /\ ~crashed
    /\ tasks[t].pc = "kill"
    /\ \E result \in {"Ok", "Err"} :
          tasks' = [tasks EXCEPT ![t].pc = "send", ![t].msg = KillComplete(result)]
    /\ mutex' = 0
    /\ UNCHANGED <<handler, channel, inputs, tmVars, nonGuiVars>>

\* The runtime sends the future's Message to the event loop.
TaskSend(t) ==
    /\ ~crashed
    /\ tasks[t].pc = "send"
    /\ channel' = Append(channel, tasks[t].msg)
    /\ tasks' = [tasks EXCEPT ![t] = Task("done", "done", 0, NoMessage)]
    /\ UNCHANGED <<handler, mutex, inputs, tmVars, nonGuiVars>>

(***************************************************************************)
(* Spec: the interactive display.                                          *)
(***************************************************************************)
\* TaskManager::new
NewTaskManager(snap) ==
    /\ handler = NewHandler
    /\ mutex = 0
    /\ processes = snap
    /\ filtered_processes = snap
    /\ cpu_usage_history = NewHandler.cpu_usage_history
    /\ memory_usage_history = NewHandler.memory_usage_history
    /\ search_query = << >>
    /\ sort_field = "PID"
    /\ sort_order = "Ascending"
    /\ show_graphs = TRUE
    /\ tasks = << >>
    /\ channel = << >>
    /\ crashed = FALSE
    /\ applied = FALSE
    /\ inputs = 0

Init ==
    /\ \E snap \in GuiSnapshots : NewTaskManager(snap)
    /\ env \in [workload : GuiWorkloads, tick : {0}]
    /\ pushed = [cpu |-> << >>, mem |-> << >>]
    /\ CliIdle
    /\ ChartIdle

\* The model follows the display through a bounded number of user inputs.
CountInput ==
    /\ inputs < MaxInputs
    /\ inputs' = inputs + 1

Next ==
    \/ Tick
    \/ PressRefresh
    \/ \E pid \in {p.pid : p \in ProcessPool} : PressKill(pid)
    \/ \E query \in GuiQueries : TypeSearch(query) /\ CountInput
    \/ \E field \in SortFields : PressSortBy(field) /\ CountInput
    \/ PressToggleGraphs /\ CountInput
    \/ Deliver
    \/ \E t \in TaskIds : TaskLock(t)
    \/ \E t \in TaskIds : TaskRefreshCpu(t)
    \/ \E t \in TaskIds : TaskRefreshMemory(t)
    \/ \E t \in TaskIds : TaskSnapshot(t)
    \/ \E t \in TaskIds : TaskKill(t)
    \/ \E t \in TaskIds : TaskSend(t)

Spec == Init /\ [][Next]_vars

\* The executor runs every future that can take a step, and the event loop
\* handles every message that has been sent to it.
Fairness ==
    /\ WF_vars(Deliver)
    /\ \A t \in 1..MaxTasks :
          /\ WF_vars(t \in TaskIds /\ TaskLock(t))
          /\ WF_vars(t \in TaskIds /\ TaskRefreshCpu(t))
          /\ WF_vars(t \in TaskIds /\ TaskRefreshMemory(t))
          /\ WF_vars(t \in TaskIds /\ TaskSnapshot(t))
          /\ WF_vars(t \in TaskIds /\ TaskKill(t))
          /\ WF_vars(t \in TaskIds /\ TaskSend(t))

SpecLive == Spec /\ Fairness

(***************************************************************************)
(* SpecKillRefresh: the display from one press on a Kill button, between   *)
(* two ticks of the timer: the kill future, the KillComplete it sends, the *)
(* Refresh that update emits and the refresh future that follows, with the *)
(* user free to press a column header meanwhile.                           *)
(***************************************************************************)
NextKillRefresh ==
    \/ \E pid \in {p.pid : p \in ProcessPool} : tasks = << >> /\ PressKill(pid)
    \/ \E field \in SortFields : PressSortBy(field) /\ CountInput
    \/ Deliver
    \/ \E t \in TaskIds : TaskLock(t)
    \/ \E t \in TaskIds : TaskRefreshCpu(t)
    \/ \E t \in TaskIds : TaskRefreshMemory(t)
    \/ \E t \in TaskIds : TaskSnapshot(t)
    \/ \E t \in TaskIds : TaskKill(t)
    \/ \E t \in TaskIds : TaskSend(t)

SpecKillRefresh == Init /\ [][NextKillRefresh]_vars /\ Fairness

(***************************************************************************)
(* SpecQuery: the display with one snapshot and no task in flight; the     *)
(* user types searches and presses column headers.                         *)
(***************************************************************************)
InitQuery ==
    /\ \E snap \in SnapshotsUpTo(MaxProcs) : NewTaskManager(snap)
    /\ HistIdle
    /\ CliIdle
    /\ ChartIdle

NextQuery ==
    \/ \E query \in Queries : TypeSearch(query) /\ UNCHANGED inputs
    \/ \E field \in SortFields : PressSortBy(field) /\ UNCHANGED inputs
    \/ PressToggleGraphs /\ UNCHANGED inputs

SpecQuery == InitQuery /\ [][NextQuery]_vars

(***************************************************************************)
(* SpecSortBy: the display with one snapshot, under presses on the column  *)
(* headers only.                                                           *)
(***************************************************************************)
\* The toggle does not read the list, so snapshots of up to two processes
\* are all it is run on.
InitSortBy ==
    /\ \E snap \in SnapshotsUpTo(2) : NewTaskManager(snap)
    /\ HistIdle
    /\ CliIdle
    /\ ChartIdle

NextSortBy == \E field \in SortFields : PressSortBy(field) /\ UNCHANGED inputs

SpecSortBy == InitSortBy /\ [][NextSortBy]_vars

(***************************************************************************)
(* SpecHistory: one owner calls refresh over and over, as the timer does   *)
(* once a second.  The host follows one of a few workloads, so that runs   *)
(* long enough to fill and overflow the histories stay enumerable.         *)
(***************************************************************************)
InitHistory ==
    /\ handler = NewHandler
    /\ GuiIdle
    /\ env \in [workload : Workloads, tick : {0}]
    /\ pushed = [cpu |-> << >>, mem |-> << >>]
    /\ CliIdle
    /\ ChartIdle

HandlerRefresh ==
    /\ env.tick < MaxRefresh
    /\ LET t == env.tick + 1
           r == HostReading(env.workload, t)
           after == Refresh(handler, r, t)
       IN  /\ handler' = after
           /\ env' = [env EXCEPT !.tick = t]
           /\ pushed' =
                [cpu |-> Append(pushed.cpu, Fin(r.cpu_usage)),
                 mem |-> Append(pushed.mem,
                                MemoryUsagePercent(r.used_memory, r.total_memory))]
    /\ UNCHANGED <<guiVars, cli, chart>>

NextHistory == HandlerRefresh

SpecHistory == InitHistory /\ [][NextHistory]_vars

(***************************************************************************)
(* SpecCli: one run of run_cli with the List command.                      *)
(***************************************************************************)
NoFilter == [some |-> FALSE, text |-> << >>]

SomeFilter(text) == [some |-> TRUE, text |-> text]

\* --sort-by, --order and --filter as the user may give them.
CliSortBys == {"pid", "cpu", "memory", "command", "user"}

CliOrders == {"asc", "desc"}

CliFilters == {NoFilter} \cup {SomeFilter(q) : q \in Queries}

\* The arms of match sort_by.as_str().
CliSortField(sort_by) ==
    CASE sort_by = "pid"     -> "PID"
      [] sort_by = "cpu"     -> "CPU"
      [] sort_by = "memory"  -> "Memory"
      [] sort_by = "command" -> "Command"
      [] OTHER               -> "Invalid"

\* if order == "asc" { .. } else { .. }
CliSortOrder(order) == IF order = "asc" THEN "Ascending" ELSE "Descending"

\* if let Some(query) = filter { .. }: the lowered query against every process.
CliFilterProcesses(procs, filter) ==
    IF filter.some THEN FilterIter(procs, ToLowercase(filter.text), 1) ELSE procs

InitCli ==
    /\ handler = NewHandler
    /\ GuiIdle
    /\ HistIdle
    /\ ChartIdle
    /\ cli \in [pc : {"start"}, sort_by : CliSortBys, order : CliOrders,
                filter : CliFilters, snapshot : {<< >>}, processes : {<< >>},
                printed : {<< >>}, stderr : {"none"}, status : {"running"}]

\* let mut handler = ProcessHandler::new(); handler.refresh_processes()
CliRefreshProcesses ==
    /\ cli.pc = "start"
    /\ \E snap \in SnapshotsUpTo(MaxProcs) :
          cli' = [cli EXCEPT !.pc = "filter", !.snapshot = snap, !.processes = snap]
    /\ UNCHANGED <<handler, guiVars, env, pushed, chart>>

\* The filter.
CliFilter ==
    /\ cli.pc = "filter"
    /\ cli' = [cli EXCEPT !.pc = "sort",
                          !.processes = CliFilterProcesses(cli.processes, cli.filter)]
    /\ UNCHANGED <<handler, guiVars, env, pushed, chart>>

\* match sort_by.as_str(): a known field sorts in place (and panics where the
\* comparator's unwrap does); any other field is reported and exits with 1.
CliSort ==
    /\ cli.pc = "sort"
    /\ LET field == CliSortField(cli.sort_by)
           r == SortProcesses(cli.processes, field, CliSortOrder(cli.order))
       IN  cli' = IF field = "Invalid"
                  THEN [cli EXCEPT !.pc = "exited", !.status = "1",
                                   !.stderr = "Invalid sort field"]
                  ELSE IF r.panicked
                  THEN [cli EXCEPT !.pc = "exited", !.status = "101",
                                   !.stderr = "panic", !.processes = r.list]
                  ELSE [cli EXCEPT !.pc = "print", !.processes = r.list]
    /\ UNCHANGED <<handler, guiVars, env, pushed, chart>>

\* The table: one row per process, then run_cli returns.
CliPrint ==
    /\ cli.pc = "print"
    /\ cli' = [cli EXCEPT !.pc = "exited", !.status = "0",
                          !.printed = [i \in 1..Len(cli.processes) |->
                                          cli.processes[i].pid]]
    /\ UNCHANGED <<handler, guiVars, env, pushed, chart>>

NextCli ==
    \/ CliRefreshProcesses
    \/ CliFilter
    \/ CliSort
    \/ CliPrint

SpecCli == InitCli /\ [][NextCli]_vars

(***************************************************************************)
(* SpecKill: one kill request, through the CLI's kill command (which takes *)
(* a signal name) or through ProcessHandler::kill_process (which always    *)
(* sends SIGTERM).  os_calls logs the calls of nix's kill.                 *)
(***************************************************************************)
KillPids == {1, 2, 3, 10}

\* Signal names a user may type.
SignalNames == {"SIGTERM", "SIGKILL", "SIGHUP", "SIGBOGUS", "SIGINT", "sigterm"}

\* What the host answers to kill(2).
OsOutcomes == {"Ok", "ESRCH", "EPERM"}

\* A match that lets any name through as the signal to send.
MatchSignalAny(signal) == signal

\* match signal.as_str()
MatchSignal(signal) ==
    CASE signal = "SIGTERM" -> "SIGTERM"
      [] signal = "SIGKILL" -> "SIGKILL"
      [] signal = "SIGHUP"  -> "SIGHUP"
      [] OTHER              -> "Unsupported"

OsCall(pid, sig) == [pid |-> pid, sig |-> sig]

\* A kill_process that answers Ok whatever the host said.
KillProcessAlwaysOk(pid, outcome) ==
    [call |-> OsCall(pid, "SIGTERM"), result |-> "Ok"]

\* ProcessHandler::kill_process: one kill(pid, SIGTERM), its result mapped
\* Ok to Ok and Err to Err.
KillProcess(pid, outcome) ==
    [call |-> OsCall(pid, "SIGTERM"),
     result |-> IF outcome = "Ok" THEN "Ok" ELSE "Err"]

InitKill ==
    /\ handler = NewHandler
    /\ GuiIdle
    /\ HistIdle
    /\ ChartIdle
    /\ cli \in [pc : {"kill"}, caller : {"cli"}, pid : KillPids,
                signal : SignalNames, sig : {"none"}, os_calls : {<< >>},
                outcome : {"none"}, result : {"none"}, stdout : {"none"},
                stderr : {"none"}, status : {"running"}]
          \cup
               [pc : {"kill"}, caller : {"handler"}, pid : KillPids,
                signal : {"SIGTERM"}, sig : {"none"}, os_calls : {<< >>},
                outcome : {"none"}, result : {"none"}, stdout : {"none"},
                stderr : {"none"}, status : {"running"}]

\* Commands::Kill: the signal name is matched; an unknown name is reported
\* and the process exits with 1.
CliKillMatchSignal ==
    /\ cli.pc = "kill"
    /\ cli.caller = "cli"
    /\ LET sig == MatchSignal(cli.signal)
       IN  cli' = IF sig = "Unsupported"
                  THEN [cli EXCEPT !.pc = "exited", !.status = "1",
                                   !.stderr = "Unsupported signal"]
                  ELSE [cli EXCEPT !.pc = "send", !.sig = sig]
    /\ UNCHANGED <<handler, guiVars, env, pushed, chart>>

\* let result = signal::kill(Pid::from_raw(*pid), sig)
CliKillSend ==
    /\ cli.pc = "send"
    /\ \E outcome \in OsOutcomes :
          cli' = [cli EXCEPT !.pc = "report",
                             !.os_calls = Append(cli.os_calls, OsCall(cli.pid, cli.sig)),
                             !.outcome = outcome,
                             !.result = IF outcome = "Ok" THEN "Ok" ELSE "Err"]
    /\ UNCHANGED <<handler, guiVars, env, pushed, chart>>

\* A report that prints the success line whatever the result was.
CliKillReportSuccessOnly ==
    /\ cli.pc = "report"
    /\ cli' = [cli EXCEPT !.pc = "exited", !.status = "0",
                          !.stdout = "Successfully sent"]
    /\ UNCHANGED <<handler, guiVars, env, pushed, chart>>

\* match result: Ok is printed on stdout, Err on stderr; run_cli returns.
CliKillReport ==
    /\ cli.pc = "report"
    /\ cli' = IF cli.result = "Ok"
              THEN [cli EXCEPT !.pc = "exited", !.status = "0",
                               !.stdout = "Successfully sent"]
              ELSE [cli EXCEPT !.pc = "exited", !.status = "0",
                               !.stderr = "Failed to send signal"]
    /\ UNCHANGED <<handler, guiVars, env, pushed, chart>>

\* handler.kill_process(pid), called on a shared reference to the handler.
HandlerKillProcess ==
    /\ cli.pc = "kill"
    /\ cli.caller = "handler"
    /\ \E outcome \in OsOutcomes :
          LET r == KillProcess(cli.pid, outcome)
          IN  cli' = [cli EXCEPT !.pc = "returned",
                                 !.sig = r.call.sig,
                                 !.os_calls = Append(cli.os_calls, r.call),
                                 !.outcome = outcome,
                                 !.result = r.result]
    /\ UNCHANGED <<handler, guiVars, env, pushed, chart>>

NextKill ==
    \/ CliKillMatchSignal
    \/ CliKillSend
    \/ CliKillReport
    \/ HandlerKillProcess

SpecKill == InitKill /\ [][NextKill]_vars

(***************************************************************************)
(* The charts: CpuUsageChart::draw and MemoryUsageChart::draw colour each  *)
(* segment of the series red when the step is a spike.                     *)
(***************************************************************************)
Abs(n) == IF n < 0 THEN 0 - n ELSE n

\* The quotient of two integers as an f32, kept exact: n / d with d > 0.
Ratio(n, d) == [k |-> "fin", n |-> n, d |-> d]

RatioNaN == [k |-> "nan", n |-> 0, d |-> 1]

RatioInf == [k |-> "inf", n |-> 1, d |-> 1]

\* x.abs() > std::f32::EPSILON.  The finite values of the model are whole
\* numbers and EPSILON is 2^-23, so a finite x is above it iff |x| >= 1; NaN
\* compares false.
AboveEpsilon(x) == x.k = "inf" \/ (x.k = "fin" /\ Abs(x.v) >= 1)

\* ((current - previous) / previous.abs()) * 100.0 in IEEE arithmetic, for a
\* previous that is not zero.
RelativeChange(previous_value, current_value) ==
    IF IsNaN(previous_value) \/ IsNaN(current_value) THEN RatioNaN
    ELSE IF previous_value.k = "inf" THEN RatioNaN
    ELSE IF current_value.k = "inf" THEN RatioInf
    ELSE Ratio((current_value.v - previous_value.v) * 100, Abs(previous_value.v))

\* CpuUsageChart: let percentage_change = if .. { .. } else { 0.0 }
CpuPercentageChange(previous_value, current_value) ==
    IF AboveEpsilon(previous_value)
    THEN RelativeChange(previous_value, current_value)
    ELSE Ratio(0, 1)

\* MemoryUsageChart: let percentage_change = if .. { .. } else { 0.0 }
MemoryPercentageChange(previous_value, current_value) ==
    IF AboveEpsilon(previous_value)
    THEN RelativeChange(previous_value, current_value)
    ELSE Ratio(0, 1)

\* A test that also takes a change of exactly the threshold.
ReachesThreshold(percentage_change) ==
    \/ percentage_change.k = "inf"
    \/ /\ percentage_change.k = "fin"
       /\ Abs(percentage_change.n) >= SPIKE_THRESHOLD * percentage_change.d

\* percentage_change.abs() > SPIKE_THRESHOLD
ExceedsThreshold(percentage_change) ==
    \/ percentage_change.k = "inf"
    \/ /\ percentage_change.k = "fin"
       /\ Abs(percentage_change.n) > SPIKE_THRESHOLD * percentage_change.d

\* CpuUsageChart: let line_color = ..
CpuLineColor(previous_value, current_value) ==
    IF ExceedsThreshold(CpuPercentageChange(previous_value, current_value))
    THEN "red" ELSE "teal"

\* MemoryUsageChart: let line_color = ..
MemoryLineColor(previous_value, current_value) ==
    IF ExceedsThreshold(MemoryPercentageChange(previous_value, current_value))
    THEN "red" ELSE "purple"

(***************************************************************************)
(* SpecChart: one call of draw on one chart.                               *)
(***************************************************************************)
\* The samples a history may hold.
ChartValues == {Fin(0), Fin(5), Fin(100), Fin(120), Fin(121), NaN}

SeriesUpTo(n) == UNION {[1..k -> ChartValues] : k \in 0..n}

\* CpuUsageChart::new / MemoryUsageChart::new, on a clone of the history.
InitChart ==
    /\ handler = NewHandler
    /\ GuiIdle
    /\ HistIdle
    /\ CliIdle
    /\ chart \in [kind : {"cpu", "memory"}, history : SeriesUpTo(MaxSeries),
                  pc : {"draw"}, i : {0}, previous_value : {Fin(0)},
                  colors : {<< >>}]

\* draw, up to the loop: fewer than two samples draw nothing.
DrawBegin ==
    /\ chart.pc = "draw"
    /\ chart' = IF Len(chart.history) < 2
                THEN [chart EXCEPT !.pc = "returned"]
                ELSE [chart EXCEPT !.pc = "loop", !.i = 2,
                                   !.previous_value = chart.history[1]]
    /\ UNCHANGED <<handler, guiVars, env, pushed, cli>>

\* A loop that never moves previous_value on from the first sample.
DrawSegmentStalePrevious ==
    /\ chart.pc = "loop"
    /\ LET current_value == chart.history[chart.i]
           line_color == IF chart.kind = "cpu"
                         THEN CpuLineColor(chart.previous_value, current_value)
                         ELSE MemoryLineColor(chart.previous_value, current_value)
       IN  chart' = [chart EXCEPT
                       !.colors = Append(chart.colors, line_color),
                       !.i = chart.i + 1,
                       !.pc = IF chart.i + 1 > Len(chart.history)
                              THEN "returned" ELSE "loop"]
    /\ UNCHANGED <<handler, guiVars, env, pushed, cli>>

\* One turn of the loop over the samples after the first.
DrawSegment ==
    /\ chart.pc = "loop"
    /\ LET current_value == chart.history[chart.i]
           line_color == IF chart.kind = "cpu"
                         THEN CpuLineColor(chart.previous_value, current_value)
                         ELSE MemoryLineColor(chart.previous_value, current_value)
       IN  chart' = [chart EXCEPT
                       !.colors = Append(chart.colors, line_color),
                       !.previous_value = current_value,
                       !.i = chart.i + 1,
                       !.pc = IF chart.i + 1 > Len(chart.history)
                              THEN "returned" ELSE "loop"]
    /\ UNCHANGED <<handler, guiVars, env, pushed, cli>>

NextChart ==
    \/ DrawBegin
    \/ DrawSegment

SpecChart == InitChart /\ [][NextChart]_vars

(***************************************************************************)
(* Claims                                                                  *)
(***************************************************************************)
Min(a, b) == IF a < b THEN a ELSE b

LastN(s, n) == SubSeq(s, Len(s) - n + 1, Len(s))

\* C1: after any number of refresh calls the CPU history and the memory
\* history each hold at most 100 samples, and once more than 100 values were
\* pushed the oldest ones are the ones gone: the history then starts at the
\* value pushed 100 pushes ago and ends at the newest one.
C1_HistoryBounded ==
    /\ Len(handler.cpu_usage_history) <= HistoryCap
    /\ Len(handler.memory_usage_history) <= HistoryCap
    /\ env.tick > HistoryCap =>
         /\ handler.cpu_usage_history[1].cycle = env.tick - HistoryCap + 1
         /\ handler.memory_usage_history[1].cycle = env.tick - HistoryCap + 1
         /\ handler.cpu_usage_history[HistoryCap].cycle = env.tick
         /\ handler.memory_usage_history[HistoryCap].cycle = env.tick

\* C1 witness: a refresh has pushed onto full histories.
C1_Witness ==
    /\ env.tick = HistoryCap + 1
    /\ Len(handler.cpu_usage_history) = HistoryCap
    /\ Len(handler.memory_usage_history) = HistoryCap

\* C2: a history holds exactly the last min(n, 100) of the n values pushed,
\* oldest first; pushing 1..120 leaves the 100 values 21..120.
C2_LastValuesKept ==
    /\ Values(handler.cpu_usage_history)
         = LastN(pushed.cpu, Min(Len(pushed.cpu), HistoryCap))
    /\ Values(handler.memory_usage_history)
         = LastN(pushed.mem, Min(Len(pushed.mem), HistoryCap))
    /\ (env.workload = "ramp" /\ env.tick = 120) =>
         Values(handler.cpu_usage_history) = [i \in 1..100 |-> Fin(20 + i)]

\* C2 witness: 1..120 were pushed.
C2_Witness ==
    /\ env.workload = "ramp"
    /\ env.tick = 120
    /\ Len(handler.cpu_usage_history) = 100
    /\ handler.cpu_usage_history[1].value = Fin(21)

CycleSet(h) == {h[i].cycle : i \in 1..Len(h)}

\* The cycle whose result a history copy is: the tag of its newest sample.
LastCycle(h) == IF h = << >> THEN 0 ELSE h[Len(h)].cycle

\* Every copy of the two histories a reader holds: the displayed pair, and
\* the pair of each RefreshComplete built by a future or waiting in the channel.
ObservedPairs ==
    {<<cpu_usage_history, memory_usage_history>>}
    \cup {<<channel[i].cpu_usage_history, channel[i].memory_usage_history>> :
            i \in {j \in 1..Len(channel) : channel[j].type = "RefreshComplete"}}
    \cup {<<tasks[t].msg.cpu_usage_history, tasks[t].msg.memory_usage_history>> :
            t \in {u \in TaskIds : tasks[u].msg.type = "RefreshComplete"}}

\* C3: no reader ever holds a CPU history with a sample of a refresh cycle
\* whose memory sample is missing from the memory history read with it: the
\* two pushes of one refresh are seen together or not at all.
C3_PushesAtomic ==
    \A pair \in ObservedPairs : CycleSet(pair[1]) \subseteq CycleSet(pair[2])

\* C3 witness: a refresh holds the lock between its two pushes, the handler's
\* CPU history is one cycle ahead of its memory history, another refresh
\* waits for the lock, and the display already shows a cycle's copies.
C3_Witness ==
    /\ \E t, u \in TaskIds :
          /\ tasks[t].pc = "refresh_memory"
          /\ tasks[u].kind = "refresh"
          /\ tasks[u].pc = "lock"
    /\ CycleSet(handler.cpu_usage_history) # CycleSet(handler.memory_usage_history)
    /\ cpu_usage_history # << >>

\* C4 (as claimed): refresh cycles take effect in the order they are issued:
\* the handler's histories hold the cycles in issue order, and the display
\* never goes back from a later cycle's result to an earlier cycle's.
C4_AppliedInIssueOrder ==
    /\ [](\A i, j \in 1..Len(handler.cpu_usage_history) :
            i < j => handler.cpu_usage_history[i].cycle
                       < handler.cpu_usage_history[j].cycle)
    /\ [][LastCycle(cpu_usage_history') >= LastCycle(cpu_usage_history)]_vars

Range(list) == {list[i] : i \in 1..Len(list)}

Pids(list) == [i \in 1..Len(list) |-> list[i].pid]

IsPermutation(a, b) ==
    /\ Len(a) = Len(b)
    /\ \A x \in Range(a) \cup Range(b) :
          Cardinality({i \in 1..Len(a) : a[i] = x})
            = Cardinality({i \in 1..Len(b) : b[i] = x})

\* Where a process stands in a snapshot (a snapshot holds each pid once).
IndexOf(list, x) == CHOOSE i \in 1..Len(list) : list[i] = x

Reverse(list) == [i \in 1..Len(list) |-> list[Len(list) + 1 - i]]

Opposite(order) == IF order = "Ascending" THEN "Descending" ELSE "Ascending"

\* x is y, a proper prefix of y, or below y at the first byte they differ in.
LexLeq(x, y) ==
    \E k \in 0..Min(Len(x), Len(y)) :
        /\ \A i \in 1..k : x[i] = y[i]
        /\ (k = Len(x) \/ (k < Len(y) /\ x[k + 1] < y[k + 1]))

\* The order the sort is stated to follow: numeric on pid, cpu and memory,
\* with NaN above every other cpu value, and bytewise on the command.
KeyLeq(field, a, b) ==
    CASE field = "PID"     -> a.pid <= b.pid
      [] field = "CPU"     ->
            \/ IsNaN(b.cpu_usage)
            \/ /\ ~IsNaN(a.cpu_usage)
               /\ \/ b.cpu_usage.k = "inf"
                  \/ /\ IsFinite(a.cpu_usage)
                     /\ IsFinite(b.cpu_usage)
                     /\ a.cpu_usage.v <= b.cpu_usage.v
      [] field = "Memory"  -> a.memory_usage <= b.memory_usage
      [] field = "Command" -> LexLeq(a.command, b.command)

KeyEq(field, a, b) == KeyLeq(field, a, b) /\ KeyLeq(field, b, a)

Key(field, p) ==
    CASE field = "PID"     -> p.pid
      [] field = "CPU"     -> p.cpu_usage
      [] field = "Memory"  -> p.memory_usage
      [] field = "Command" -> p.command

Keys(field, list) == [i \in 1..Len(list) |-> Key(field, list[i])]

\* Elements with equal keys stand in the list as they stand in the snapshot.
TiesInSnapshotOrder(list, field, snap) ==
    \A i, j \in 1..Len(list) :
        (i < j /\ KeyEq(field, list[i], list[j]))
            => IndexOf(snap, list[i]) < IndexOf(snap, list[j])

\* t, letter case aside, occurs in s.
InsensitiveSubstring(t, s) ==
    \E off \in 0..(Len(s) - Len(t)) :
        \A k \in 1..Len(t) : ToLowerByte(t[k]) = ToLowerByte(s[off + k])

\* The filter text is in the pid's decimal form or in the command name.
Accepts(p, t) ==
    InsensitiveSubstring(t, PidToString(p.pid)) \/ InsensitiveSubstring(t, p.command)

\* C5 (as claimed): sorting by the Cpu field never faults, whatever the
\* snapshot holds, a NaN cpu value included.
C5_CpuSortNeverFaults == sort_field = "CPU" => ~crashed

\* C6: the filter step returns exactly the samples, in snapshot order, whose
\* pid in decimal or whose command name holds the filter text, letter case
\* aside; an absent or empty filter returns the snapshot as it is.  The
\* display's filter gives the same list for the same text.
C6_FilterExact ==
    cli.pc = "sort" =>
        /\ cli.processes
             = SelectSeq(cli.snapshot,
                         LAMBDA p : ~cli.filter.some \/ Accepts(p, cli.filter.text))
        /\ (cli.filter.text = << >> => cli.processes = cli.snapshot)
        /\ FilterProcesses(cli.snapshot, cli.filter.text) = cli.processes

\* C6 witness: the text "sS" has kept "SSH" and "sshd" and dropped "cron".
C6_Witness ==
    /\ cli.pc = "sort"
    /\ cli.filter = SomeFilter(<<115, 83>>)
    /\ cli.snapshot = <<ProcC, ProcB, ProcA>>
    /\ cli.processes = <<ProcB, ProcA>>

\* C7: whenever the sort has returned, the displayed list is a permutation of
\* the filtered snapshot and its keys are monotonic in the sort field:
\* non-decreasing when ascending, non-increasing when descending.
C7_SortedPermutation ==
    (applied /\ ~crashed) =>
        /\ IsPermutation(filtered_processes,
                         FilterProcesses(processes, search_query))
        /\ \A i \in 1..(Len(filtered_processes) - 1) :
              IF sort_order = "Ascending"
              THEN KeyLeq(sort_field, filtered_processes[i], filtered_processes[i + 1])
              ELSE KeyLeq(sort_field, filtered_processes[i + 1], filtered_processes[i])

\* C7 witness: three processes sorted by command, descending, out of the
\* order the snapshot had them in.
C7_Witness ==
    /\ applied
    /\ ~crashed
    /\ sort_field = "Command"
    /\ sort_order = "Descending"
    /\ Len(filtered_processes) = 3
    /\ filtered_processes # processes
    /\ filtered_processes # Reverse(processes)

\* C8: the sort is stable in both directions: processes with equal keys keep
\* the order the snapshot had them in, and sorting the sorted list again by
\* the same field and order leaves it as it is.
C8_SortStable ==
    (applied /\ ~crashed) =>
        /\ TiesInSnapshotOrder(filtered_processes, sort_field, processes)
        /\ SortProcesses(filtered_processes, sort_field, sort_order)
             = SortOk(filtered_processes)

\* C8 witness: a descending sort by memory that holds two processes of equal
\* memory next to each other.
C8_Witness ==
    /\ applied
    /\ ~crashed
    /\ sort_field = "Memory"
    /\ sort_order = "Descending"
    /\ \E i \in 1..(Len(filtered_processes) - 1) :
          filtered_processes[i].memory_usage = filtered_processes[i + 1].memory_usage

\* C9: the keys of the descending result are the keys of the ascending result
\* in reverse, equal keys keep snapshot order in both directions, and memory
\* 200/100/50 for pids 3/1/2 gives 2,1,3 ascending and 3,1,2 descending.
C9_DescendingReversesAscending ==
    (applied /\ ~crashed) =>
        LET input == FilterProcesses(processes, search_query)
            other == SortProcesses(input, sort_field, Opposite(sort_order))
        IN  /\ ~other.panicked
            /\ Keys(sort_field, other.list)
                 = Reverse(Keys(sort_field, filtered_processes))
            /\ TiesInSnapshotOrder(other.list, sort_field, processes)
            /\ TiesInSnapshotOrder(filtered_processes, sort_field, processes)
            /\ (processes = <<ProcA, ProcB, ProcC>> /\ search_query = << >>
                  /\ sort_field = "Memory") =>
                 Pids(filtered_processes)
                   = IF sort_order = "Ascending" THEN <<2, 1, 3>> ELSE <<3, 1, 2>>

\* C9 witness: pids 3/1/2 with memory 200/100/50, sorted by memory descending.
C9_Witness ==
    /\ applied
    /\ ~crashed
    /\ processes = <<ProcA, ProcB, ProcC>>
    /\ sort_field = "Memory"
    /\ sort_order = "Descending"
    /\ Pids(filtered_processes) = <<3, 1, 2>>

\* C10: a step from previous to current is drawn as a spike iff previous is
\* not zero and |current - previous| / |previous| * 100 is strictly above 20:
\* 100 -> 120 is no spike, 100 -> 121 is one, no step from 0 is one, and a
\* step from or to NaN compares false and is none.  The CPU chart and the
\* memory chart follow the same rule.
C10_SpikeRule ==
    chart.pc \in {"loop", "returned"} =>
        \A j \in 1..Len(chart.colors) :
            LET previous == chart.history[j]
                current == chart.history[j + 1]
                spike == chart.colors[j] = "red"
            IN  /\ (IsFinite(previous) /\ IsFinite(current)) =>
                      (spike <=> /\ previous.v # 0
                                 /\ Abs(current.v - previous.v) * 100
                                      > 20 * Abs(previous.v))
                /\ (previous = Fin(100) /\ current = Fin(120)) => ~spike
                /\ (previous = Fin(100) /\ current = Fin(121)) => spike
                /\ previous = Fin(0) => ~spike
                /\ (IsNaN(previous) \/ IsNaN(current)) => ~spike

\* C10 witness: the memory chart has drawn 0 -> 100 -> 121: no spike from
\* zero, then a spike of 21 percent.
C10_Witness ==
    /\ chart.pc = "returned"
    /\ chart.kind = "memory"
    /\ chart.history = <<Fin(0), Fin(100), Fin(121)>>
    /\ chart.colors = <<"purple", "red">>

\* C11: a kill request whose signal name is not SIGTERM, SIGKILL or SIGHUP
\* ends as unsupported with no call of the OS kill, and the CLI exits with 1.
C11_UnsupportedSignalNoOsCall ==
    (cli.caller = "cli" /\ cli.signal \notin {"SIGTERM", "SIGKILL", "SIGHUP"}) =>
        /\ cli.os_calls = << >>
        /\ cli.pc \in {"kill", "exited"}
        /\ cli.pc = "exited" =>
              /\ cli.status = "1"
              /\ cli.stderr = "Unsupported signal"
              /\ cli.stdout = "none"

\* C11 witness: kill --signal SIGBOGUS has exited with 1 and no OS call.
C11_Witness ==
    /\ cli.pc = "exited"
    /\ cli.caller = "cli"
    /\ cli.signal = "SIGBOGUS"
    /\ cli.status = "1"
    /\ cli.os_calls = << >>

\* C12: a kill request with a recognized signal calls the OS kill exactly
\* once, for the given pid and signal, and what the caller is told is what
\* the OS answered: success is reported iff the OS accepted, a failure is
\* reported as a failure.
C12_OneCallOutcomeReported ==
    (cli.pc \in {"exited", "returned"}
        /\ cli.signal \in {"SIGTERM", "SIGKILL", "SIGHUP"}) =>
        /\ cli.os_calls = <<[pid |-> cli.pid, sig |-> cli.signal]>>
        /\ cli.outcome \in OsOutcomes
        /\ cli.caller = "cli" =>
              /\ (cli.stdout = "Successfully sent") <=> (cli.outcome = "Ok")
              /\ (cli.stderr = "Failed to send signal") <=> (cli.outcome # "Ok")
        /\ cli.caller = "handler" =>
              /\ (cli.result = "Ok") <=> (cli.outcome = "Ok")
              /\ (cli.result = "Err") <=> (cli.outcome # "Ok")

\* C12 witness: kill --pid 10 --signal SIGKILL met "no such process", called
\* the OS once and printed the failure.
C12_Witness ==
    /\ cli.pc = "exited"
    /\ cli.caller = "cli"
    /\ cli.pid = 10
    /\ cli.signal = "SIGKILL"
    /\ cli.outcome = "ESRCH"
    /\ Len(cli.os_calls) = 1
    /\ cli.stderr = "Failed to send signal"

\* The tasks that are inside an operation of the shared handler.
InsideHandler ==
    {t \in TaskIds :
        tasks[t].pc \in {"refresh_cpu", "refresh_memory", "snapshot", "kill"}}

\* C13: under every interleaving of the display's tasks at most one task is
\* inside a handler operation, and it is the one that holds the lock: a kill
\* never overlaps another kill or a refresh.
C13_OneTaskInsideHandler ==
    /\ Cardinality(InsideHandler) <= 1
    /\ \A t \in InsideHandler : mutex = t
    /\ mutex # 0 => mutex \in InsideHandler

\* C13 witness: a kill is inside the handler while a refresh waits for the
\* lock.
C13_Witness ==
    \E k, r \in TaskIds :
        /\ tasks[k].kind = "kill"
        /\ tasks[k].pc = "kill"
        /\ tasks[r].kind = "refresh"
        /\ tasks[r].pc = "lock"
        /\ mutex = k

\* C14 (as claimed): when the host reports total_memory = 0 the refresh
\* skips the memory push, so the memory history stays as it was and never
\* holds a NaN or infinite sample.
C14_ZeroTotalMemorySkipsPush ==
    /\ \A i \in 1..Len(handler.memory_usage_history) :
          IsFinite(handler.memory_usage_history[i].value)
    /\ env.workload = "nomem" => handler.memory_usage_history = << >>

\* C16: both histories are empty when the handler is constructed, and a step
\* changes a history only if it is one of refresh's two pushes: the steps of
\* refresh_processes with the two accessors and of kill_process leave both
\* histories as they are.
C16_OnlyRefreshMutatesHistories ==
    /\ handler.cpu_usage_history = << >>
    /\ handler.memory_usage_history = << >>
    /\ [][LET changed ==
                  \/ handler'.cpu_usage_history # handler.cpu_usage_history
                  \/ handler'.memory_usage_history # handler.memory_usage_history
              other ==
                  \E t \in TaskIds : /\ tasks[t].pc \in {"snapshot", "kill"}
                                     /\ tasks'[t].pc = "send"
              push ==
                  \E t \in TaskIds :
                      /\ tasks[t].kind = "refresh"
                      /\ tasks[t].pc \in {"refresh_cpu", "refresh_memory"}
                      /\ tasks'[t].pc # tasks[t].pc
          IN  (other => ~changed) /\ (changed => push)]_vars

\* C16 witness: a kill has run and returned while the handler's histories
\* hold samples, and they hold them still.
C16_Witness ==
    /\ handler.cpu_usage_history # << >>
    /\ handler.memory_usage_history # << >>
    /\ \E t \in TaskIds : tasks[t].kind = "kill" /\ tasks[t].pc = "send"

\* C17 (as claimed): when a refresh whose process enumeration failed
\* reports back, the displayed snapshot, the displayed list and the displayed
\* histories stay exactly as they were, and the program goes on.
C17_FailedEnumerationKeepsDisplay ==
    [][(/\ channel # << >>
        /\ Head(channel).type = "RefreshComplete"
        /\ Head(channel).processes = FailedEnumeration
        /\ channel' = Tail(channel))
          => /\ processes' = processes
             /\ filtered_processes' = filtered_processes
             /\ cpu_usage_history' = cpu_usage_history
             /\ memory_usage_history' = memory_usage_history
             /\ crashed' = crashed]_vars

\* C19 (as claimed): in every state of the display, the initial one included,
\* the displayed list is the filter-then-sort of the latest snapshot under
\* the current search query, sort field and sort order.
C19_DisplayedIsFilterThenSort ==
    ~crashed =>
        filtered_processes
          = ApplyFilterAndSort(processes, search_query, sort_field, sort_order).list

\* C15 (as claimed): the list command rejects a sort field other than pid,
\* cpu, memory and command before it sorts or prints anything, with a
\* diagnostic and exit status 1, and completes with exit status 0 for a
\* recognized field.
C15_SortFieldChecked ==
    cli.pc = "exited" =>
        IF cli.sort_by \in {"pid", "cpu", "memory", "command"}
        THEN cli.status = "0"
        ELSE /\ cli.status = "1"
             /\ cli.stderr = "Invalid sort field"
             /\ cli.printed = << >>
             /\ cli.processes = CliFilterProcesses(cli.snapshot, cli.filter)

\* The colour the chart of this kind gives the step from previous to current.
LineColor(kind, previous, current) ==
    IF kind = "cpu" THEN CpuLineColor(previous, current)
                    ELSE MemoryLineColor(previous, current)

\* C18: a series of n samples gets exactly n - 1 classifications, the j-th
\* being the rule applied to samples j and j + 1 with sample j as previous;
\* inside the loop the classifications so far are those of the pairs already
\* passed; a series of 0 or 1 samples gets none and draw returns.
C18_ConsecutivePairs ==
    LET n == Len(chart.history)
    IN  /\ \A j \in 1..Len(chart.colors) :
              /\ j + 1 <= n
              /\ chart.colors[j]
                   = LineColor(chart.kind, chart.history[j], chart.history[j + 1])
        /\ chart.pc = "loop" =>
              /\ Len(chart.colors) = chart.i - 2
              /\ chart.previous_value = chart.history[chart.i - 1]
        /\ chart.pc = "returned" =>
              Len(chart.colors) = IF n < 2 THEN 0 ELSE n - 1
        /\ n < 2 => chart.pc \in {"draw", "returned"}

\* C18 witness: three samples, two classifications, the second one of a pair
\* whose previous is the second sample and not the first.
C18_Witness ==
    /\ chart.pc = "returned"
    /\ chart.history = <<Fin(5), Fin(100), Fin(120)>>
    /\ chart.colors = <<"red", "teal">>

\* C20 (as claimed): under fair scheduling every issued Refresh or
\* KillProcess task gets the handler lock, finishes its operation, releases
\* the lock and sends its RefreshComplete or KillComplete to the event loop.
C20_EveryTaskDelivers ==
    \A t \in 1..MaxTasks :
        (t \in TaskIds /\ tasks[t].kind \in {"refresh", "kill"})
            ~> (t \in TaskIds /\ tasks[t].pc = "done")

\* C21 (as claimed): every completed kill, accepted by the host or refused,
\* makes update emit exactly one Refresh, which is sent on as it is, and the
\* displayed data is in the end replaced by a refresh taken after the kill.
C21_KillFollowedByRefresh ==
    /\ [][(/\ channel # << >>
           /\ Head(channel).type = "KillComplete"
           /\ channel' = Tail(channel))
             => tasks' = Append(tasks, Task("emit", "send", 0, RefreshMessage))]_vars
    /\ [][\A t \in TaskIds :
             (tasks[t].kind = "emit" /\ tasks'[t].kind = "done")
                => channel' = Append(channel, RefreshMessage)]_vars
    /\ \A k \in 1..MaxTasks :
          (k \in TaskIds /\ tasks[k].kind = "kill" /\ tasks[k].pc = "send")
             ~> (\E i \in 1..Len(cpu_usage_history) : cpu_usage_history[i].cycle > k)

\* C22: in every state of the display a press on column f is handled, and
\* every way it can be handled leaves f as the sort field, with the order
\* flipped when f was the sort field already and Ascending when it was not.
\* The state after the press is a state of the display too, so a second press
\* on the same column flips the order back: field and order are restored.
C22_SortByToggles ==
    ~crashed =>
        \A f \in SortFields :
            /\ ENABLED (PressSortBy(f) /\ UNCHANGED inputs)
            /\ ~ENABLED (/\ PressSortBy(f)
                         /\ UNCHANGED inputs
                         /\ ~(/\ sort_field' = f
                              /\ sort_order' = IF f = sort_field
                                               THEN Opposite(sort_order)
                                               ELSE "Ascending"))

\* C22 witness: the memory column is sorted descending, which only a second
\* press on that column gives.
C22_Witness ==
    /\ ~crashed
    /\ applied
    /\ sort_field = "Memory"
    /\ sort_order = "Descending"

\* C23: a step that handles SearchChanged, SortBy or ToggleGraphs leaves the
\* snapshot, the displayed histories and the handler as they are; a step
\* that changes the snapshot or a displayed history is the handling of a
\* RefreshComplete; and a step that changes show_graphs changes nothing else.
C23_OnlyRefreshCompleteReplaces ==
    [][LET data == <<processes, cpu_usage_history, memory_usage_history>>
       IN  /\ inputs' # inputs => (data' = data /\ handler' = handler)
           /\ data' # data =>
                 /\ channel # << >>
                 /\ Head(channel).type = "RefreshComplete"
                 /\ channel' = Tail(channel)
                 /\ data' = <<Head(channel).processes,
                              Head(channel).cpu_usage_history,
                              Head(channel).memory_usage_history>>
           /\ show_graphs' # show_graphs =>
                 UNCHANGED <<handler, mutex, tasks, channel, data,
                             filtered_processes, search_query, sort_field,
                             sort_order, crashed, applied>>]_vars

\* C23 witness: a search has been typed over a display that holds histories
\* and it has hidden some of the snapshot's processes.
C23_Witness ==
    /\ inputs = 1
    /\ search_query = <<115, 83>>
    /\ cpu_usage_history # << >>
    /\ memory_usage_history # << >>
    /\ Len(filtered_processes) < Len(processes)

=============================================================================
